---- MODULE Spec2Model ----
(***************************************************************************)
(* A model of the CLogger library (clog/logger.c, clog/include/logger.h):  *)
(* one Logger object, its three initializers, logger_close, the five       *)
(* setters and the emission path (logger_log_impl / logger_vlog_impl /     *)
(* logger_write), together with the resources the logger touches: the      *)
(* mutex stored in lg->lock, the FILE handles it opens, the caller's       *)
(* stream, the bytes that reach each sink, and each thread's errno.        *)
(***************************************************************************)
EXTENDS Integers, Sequences, FiniteSets, TLC

\* ------------------------------------------------------------------ bounds
NThreads  == 2      \* threads that may emit through the logger
MaxCalls  == 2      \* calls of one run that get past argument validation
                    \* (initializers and emissions; setters and close are free)
MaxEmits  == 2      \* emission calls of a concurrent run

\* ------------------------------------------------------- program constants
NULLP        == 0   \* the null pointer (FILE*, Logger*, mutex slot not set)
STREAM       == 1   \* the caller's pre-opened stream handle (e.g. stderr)
LOG_DEBUG    == 10
LOG_INFO     == 20
LOG_WARNING  == 30
LOG_ERROR    == 40
LOG_CRITICAL == 50
EINVAL       == 22  \* invalid argument
ENOENT       == 2   \* what the failed fopen of the unusable path leaves
ENOTTY       == 25  \* what isatty() leaves when the stream is no terminal
BUF_SIZE     == 2048 \* char buf[2048] of logger_vlog_impl

Threads == 1..NThreads
Caller  == {t \in Threads : \A u \in Threads : t <= u}   \* the first thread
Levels  == {LOG_INFO, LOG_ERROR}
NoName  == <<>>             \* name == NULL
Names   == {NoName, <<"demo">>}
LgArgs  == {"null", "lg"}            \* the Logger* argument: NULL or &lg
Apis    == {"log", "vlog", "write"}
StreamKinds == {"tty", "file", "file_enotty"}
PlainMsg == [txt |-> <<"m">>, fill |-> 0]
Msgs    == {PlainMsg}

VARIABLES
    lg,        \* the Logger struct
    mtx,       \* every mutex ever created in lg->lock: state, owner, destroys
    files,     \* every FILE the logger fopen()ed: state, number of fclose calls
    streamSt,  \* the caller's stream: state, fclose calls, buffering mode
    out,       \* what has been written to each sink, fragment by fragment
    errno,     \* errno of each thread
    em,        \* each thread's position inside an emission call
    lastOp,    \* the API function that returned last,
    lastRet,   \* and how it returned
    calls,     \* how many initializer and emission calls were made
    ub,        \* undefined operations executed so far
    streamKind \* the caller's stream: "tty", or no terminal on a C library
               \* whose isatty() leaves ENOTTY ("file_enotty") or not ("file")

vars == <<lg, mtx, files, streamSt, out, errno, em, lastOp, lastRet, calls, ub,
          streamKind>>

\* memset(lg, 0, sizeof *lg)
ZeroLogger ==
    [file |-> NULLP, stream |-> NULLP, level |-> 0, name |-> NoName,
     timestamps |-> FALSE, colors |-> FALSE, owns_file |-> FALSE,
     locking |-> FALSE, initialized |-> FALSE, lock |-> NULLP]

\* a thread outside any emission call; inside one, pc is the next thing it does
\* and the other fields are the call's arguments and local variables
IdleEm ==
    [pc |-> "idle", api |-> "none", id |-> 0, sev |-> 0, msg |-> PlainMsg,
     locked |-> FALSE, ts |-> <<>>, buf |-> PlainMsg, scolor |-> FALSE,
     todo |-> <<>>, sink |-> NULLP]

\* what is remembered of the call that returned last: the function and how it
\* returned ("true", "einval", "mutex", "open", "void", "suppressed", "emitted")
NoCall == [op |-> "none", ret |-> "none"]
last   == [op |-> lastOp, ret |-> lastRet]

FileHandle(k) == STREAM + k      \* the FILE* returned by the k-th fopen
FileIndex(h)  == h - STREAM
IsFile(h)     == h > STREAM

Init ==
    /\ lg = ZeroLogger
    /\ mtx = <<>>
    /\ files = <<>>
    /\ streamSt = [st |-> "open", closes |-> 0, buf |-> "default"]
    /\ out = [stream |-> <<>>, file |-> <<>>]
    /\ errno = [t \in Threads |-> 0]
    /\ em = [t \in Threads |-> IdleEm]
    /\ lastOp = NoCall.op
    /\ lastRet = NoCall.ret
    /\ calls = [init |-> 0, emit |-> 0]
    /\ ub = {}
    /\ streamKind \in StreamKinds

Min(a, b) == IF a < b THEN a ELSE b

Quiescent == \A t \in Threads : em[t].pc = "idle"

\* ------------------------------------------------------------ the mutex
\* LOGGER_MUTEX_INIT_OK(lg->lock): a new mutex in the (zeroed) lock slot
MutexInit(m) == Append(m, [st |-> "valid", owner |-> 0, destroys |-> 0])

\* LOGGER_MUTEX_DESTROY(lg->lock); destroys counts the destroy calls made on
\* the mutex: 0, 1, or 2 for "more than once"
MutexDestroy(m, id) ==
    IF id = NULLP THEN m
    ELSE [m EXCEPT ![id] = [st |-> "destroyed", owner |-> @.owner,
                            destroys |-> Min(@.destroys + 1, 2)]]

\* the undefined operations a destroy of slot id commits
DestroyUb(m, id) ==
    IF id = NULLP THEN {"destroy_of_no_mutex"}
    ELSE (IF m[id].st = "destroyed" THEN {"destroy_of_destroyed_mutex"} ELSE {})
         \cup (IF m[id].owner # 0 THEN {"destroy_of_locked_mutex"} ELSE {})

\* --------------------------------------------------------- the "world"
\* What a non-emission API function reads and writes, as one record, so that
\* logger_init_dual can be written as a call of logger_init_file.
World(t) ==
    [lg |-> lg, mtx |-> mtx, files |-> files, streamSt |-> streamSt,
     errno |-> errno[t], ub |-> ub, ret |-> TRUE, why |-> "true"]

Fail(w, why) == [w EXCEPT !.ret = FALSE, !.why = why]

\* LOGGER_ISATTY(h): isatty(fileno(h)), for the caller's stream of kind k; on
\* a non-terminal the C library may leave ENOTTY in errno (glibc does, the
\* Win32 _isatty does not)
IsattyValue(h, k) == h = STREAM /\ k = "tty"
IsattyErrno(e, h, k) == IF k = "file_enotty" THEN ENOTTY ELSE e

\* fopen(path, "a"): whether it succeeds, and the errno a failure leaves
FopenOk(path) == path = "good"
FopenErrno    == ENOENT

\* ------------------------------------------------------- initializers
\* (variant: init_common without the memset)
init_common_NoMemset(w, a, level, mtxOk) ==
    IF a = "null" THEN Fail([w EXCEPT !.errno = EINVAL], "einval")
    ELSE LET l0 == [w.lg EXCEPT !.level = level, !.timestamps = TRUE,
                                 !.colors = TRUE, !.locking = TRUE]
         IN  IF ~mtxOk
             THEN Fail([w EXCEPT !.lg = l0], "mutex")
             ELSE [w EXCEPT !.mtx = MutexInit(w.mtx),
                            !.lg = [l0 EXCEPT !.lock = Len(w.mtx) + 1,
                                              !.initialized = TRUE]]

\* (variant: init_common destroys the mutex the logger held before)
init_common_ReleasesPrevious(w, a, level, mtxOk) ==
    IF a = "null" THEN Fail([w EXCEPT !.errno = EINVAL], "einval")
    ELSE LET l0 == [ZeroLogger EXCEPT !.level = level, !.timestamps = TRUE,
                                       !.colors = TRUE, !.locking = TRUE]
             m0 == MutexDestroy(w.mtx, w.lg.lock)
         IN  IF ~mtxOk
             THEN Fail([w EXCEPT !.lg = l0, !.mtx = m0], "mutex")
             ELSE [w EXCEPT !.mtx = MutexInit(m0),
                            !.lg = [l0 EXCEPT !.lock = Len(w.mtx) + 1,
                                              !.initialized = TRUE]]

init_common(w, a, level, mtxOk) ==
    IF a = "null" THEN Fail([w EXCEPT !.errno = EINVAL], "einval")
    ELSE LET l0 == [ZeroLogger EXCEPT !.level = level, !.timestamps = TRUE,
                                       !.colors = TRUE, !.locking = TRUE]
         IN  IF ~mtxOk
             THEN Fail([w EXCEPT !.lg = l0], "mutex")
             ELSE [w EXCEPT !.mtx = MutexInit(w.mtx),
                            !.lg = [l0 EXCEPT !.lock = Len(w.mtx) + 1,
                                              !.initialized = TRUE]]

\* (variant: the stream is examined but not stored)
BindStream_Unbound(w, stream, k) ==
    [w EXCEPT !.errno = IsattyErrno(w.errno, stream, k),
              !.streamSt.buf = IF IsattyValue(stream, k) THEN "line" ELSE @]

\* the tail of logger_init_stream / logger_init_dual: bind the stream and
\* line-buffer it when it is a terminal
BindStream(w, stream, k) ==
    [w EXCEPT !.lg.stream = stream,
              !.errno = IsattyErrno(w.errno, stream, k),
              !.streamSt.buf = IF IsattyValue(stream, k) THEN "line" ELSE @]

logger_init_stream(w, a, stream, level, mtxOk, k) ==
    IF a = "null" \/ stream = NULLP
    THEN Fail([w EXCEPT !.errno = EINVAL], "einval")
    ELSE LET w1 == init_common(w, a, level, mtxOk)
         IN  IF ~w1.ret THEN w1 ELSE BindStream(w1, stream, k)

\* (variant: the failure path of logger_init_file returns without
\* LOGGER_MUTEX_DESTROY)
logger_init_file_LeaksMutex(w, a, path, level, mtxOk) ==
    IF a = "null" \/ path = "null"
    THEN Fail([w EXCEPT !.errno = EINVAL], "einval")
    ELSE LET w1 == init_common(w, a, level, mtxOk)
         IN  IF ~w1.ret THEN w1
             ELSE IF ~FopenOk(path)
             THEN Fail([w1 EXCEPT !.errno = FopenErrno], "open")
             ELSE [w1 EXCEPT
                     !.files = Append(@, [st |-> "open", closes |-> 0,
                                          buf |-> "full"]),
                     !.lg.file = FileHandle(Len(w1.files) + 1),
                     !.lg.owns_file = TRUE]

logger_init_file(w, a, path, level, mtxOk) ==
    IF a = "null" \/ path = "null"
    THEN Fail([w EXCEPT !.errno = EINVAL], "einval")
    ELSE LET w1 == init_common(w, a, level, mtxOk)
         IN  IF ~w1.ret THEN w1
             ELSE IF ~FopenOk(path)
             THEN Fail([w1 EXCEPT !.errno = FopenErrno,
                                  !.ub = @ \cup DestroyUb(w1.mtx, w1.lg.lock),
                                  !.mtx = MutexDestroy(w1.mtx, w1.lg.lock)],
                       "open")
             ELSE [w1 EXCEPT
                     !.files = Append(@, [st |-> "open", closes |-> 0,
                                          buf |-> "full"]),
                     !.lg.file = FileHandle(Len(w1.files) + 1),
                     !.lg.owns_file = TRUE]

\* (variant: logger_init_dual does not check the stream argument)
logger_init_dual_UncheckedStream(w, a, path, stream, level, mtxOk, k) ==
    IF a = "null" \/ path = "null"
    THEN Fail([w EXCEPT !.errno = EINVAL], "einval")
    ELSE LET w1 == logger_init_file(w, a, path, level, mtxOk)
         IN  IF ~w1.ret THEN w1 ELSE BindStream(w1, stream, k)

logger_init_dual(w, a, path, stream, level, mtxOk, k) ==
    IF a = "null" \/ path = "null" \/ stream = NULLP
    THEN Fail([w EXCEPT !.errno = EINVAL], "einval")
    ELSE LET w1 == logger_init_file(w, a, path, level, mtxOk)
         IN  IF ~w1.ret THEN w1 ELSE BindStream(w1, stream, k)

\* ------------------------------------------------------------ shutdown
\* fclose(h); closes counts the fclose calls made on the FILE: 0, 1, or 2 for
\* "more than once" (which is undefined)
Closed(f) == [f EXCEPT !.st = "closed", !.closes = Min(@ + 1, 2)]
fclose(w, h) ==
    LET f  == IF h = STREAM THEN w.streamSt ELSE w.files[FileIndex(h)]
        w1 == IF f.st = "closed"
              THEN [w EXCEPT !.ub = @ \cup {"fclose_of_closed_file"}] ELSE w
    IN  IF h = STREAM THEN [w1 EXCEPT !.streamSt = Closed(f)]
        ELSE [w1 EXCEPT !.files[FileIndex(h)] = Closed(f)]

\* (variant: logger_close forgets lg->stream = NULL)
logger_close_KeepsStream(w, a) ==
    IF a = "null" THEN [w EXCEPT !.why = "void"]
    ELSE LET l  == w.lg
             w1 == IF l.owns_file /\ l.file # NULLP THEN fclose(w, l.file)
                   ELSE w
         IN  [w1 EXCEPT
                !.why = "void",
                !.ub = @ \cup DestroyUb(w.mtx, l.lock),
                !.mtx = MutexDestroy(w.mtx, l.lock),
                !.lg = [l EXCEPT !.file = NULLP, !.initialized = FALSE]]

\* (variant: logger_close closes whatever file it holds, owned or not, and
\* the stream as well)
logger_close_ClosesStream(w, a) ==
    IF a = "null" THEN [w EXCEPT !.why = "void"]
    ELSE LET l  == w.lg
             w1 == IF l.file # NULLP THEN fclose(w, l.file) ELSE w
             w2 == IF l.stream # NULLP THEN fclose(w1, l.stream) ELSE w1
         IN  [w2 EXCEPT
                !.why = "void",
                !.ub = @ \cup DestroyUb(w.mtx, l.lock),
                !.mtx = MutexDestroy(w.mtx, l.lock),
                !.lg = [l EXCEPT !.file = NULLP, !.stream = NULLP,
                                 !.initialized = FALSE]]

logger_close(w, a) ==
    IF a = "null" THEN [w EXCEPT !.why = "void"]
    ELSE LET l  == w.lg
             w1 == IF l.owns_file /\ l.file # NULLP THEN fclose(w, l.file)
                   ELSE w
         IN  [w1 EXCEPT
                !.why = "void",
                !.ub = @ \cup DestroyUb(w.mtx, l.lock),
                !.mtx = MutexDestroy(w.mtx, l.lock),
                !.lg = [l EXCEPT !.file = NULLP, !.stream = NULLP,
                                 !.initialized = FALSE]]

\* ------------------------------------------------------------- setters
logger_set_level(w, a, level) ==
    IF a = "null" THEN [w EXCEPT !.errno = EINVAL, !.why = "einval"]
    ELSE [w EXCEPT !.lg.level = level, !.why = "void"]

\* (variant: a NULL name is ignored)
logger_set_name_KeepsOnNull(w, a, name) ==
    IF a = "null" THEN [w EXCEPT !.errno = EINVAL, !.why = "einval"]
    ELSE IF name = NoName THEN [w EXCEPT !.why = "void"]
    ELSE [w EXCEPT !.lg.name = name, !.why = "void"]

logger_set_name(w, a, name) ==
    IF a = "null" THEN [w EXCEPT !.errno = EINVAL, !.why = "einval"]
    ELSE [w EXCEPT !.lg.name = name, !.why = "void"]

logger_enable_timestamps(w, a, on) ==
    IF a = "null" THEN [w EXCEPT !.errno = EINVAL, !.why = "einval"]
    ELSE [w EXCEPT !.lg.timestamps = on, !.why = "void"]

logger_enable_colors(w, a, on) ==
    IF a = "null" THEN [w EXCEPT !.errno = EINVAL, !.why = "einval"]
    ELSE [w EXCEPT !.lg.colors = on, !.why = "void"]

\* (variant: disabling locking also releases the mutex)
logger_enable_locking_Unlocks(w, a, on) ==
    IF a = "null" THEN [w EXCEPT !.errno = EINVAL, !.why = "einval"]
    ELSE IF ~on /\ w.lg.lock # NULLP
    THEN [w EXCEPT !.lg.locking = on, !.why = "void",
                   !.mtx[w.lg.lock].owner = 0]
    ELSE [w EXCEPT !.lg.locking = on, !.why = "void"]

logger_enable_locking(w, a, on) ==
    IF a = "null" THEN [w EXCEPT !.errno = EINVAL, !.why = "einval"]
    ELSE [w EXCEPT !.lg.locking = on, !.why = "void"]

\* ------------------------------------------- the calls, as actions
\* the state after a non-emission call by thread t that returned world w
Return(t, op, w) ==
    /\ lastOp' = op
    /\ lastRet' = w.why
    /\ lg' = w.lg
    /\ mtx' = w.mtx
    /\ files' = w.files
    /\ streamSt' = w.streamSt
    /\ errno' = [errno EXCEPT ![t] = w.errno]
    /\ ub' = w.ub
    /\ UNCHANGED <<out, em, streamKind>>

\* an initializer call that gets past its argument checks uses up one of the
\* MaxCalls; the logger's other functions are called on a logger that an
\* initializer has written (or with a NULL logger)
InitBudget(nullArgs) ==
    /\ nullArgs \/ calls.init + calls.emit < MaxCalls
    /\ calls' = IF nullArgs THEN calls ELSE [calls EXCEPT !.init = @ + 1]

Written(a) == a = "null" \/ calls.init > 0

\* The arguments a call is made with: all valid, or one of the pointers NULL.
\* A call that fails its argument check reads nothing else, so the values
\* of its other arguments are not varied.
StreamArgs == {[a |-> "lg", stream |-> STREAM], [a |-> "null", stream |-> STREAM],
               [a |-> "lg", stream |-> NULLP]}
FileArgs   == {[a |-> "lg", path |-> p] : p \in {"good", "bad", "null"}}
              \cup {[a |-> "null", path |-> "good"]}
DualArgs   == {[a |-> "lg", path |-> p, stream |-> STREAM] :
                   p \in {"good", "bad", "null"}}
              \cup {[a |-> "null", path |-> "good", stream |-> STREAM],
                    [a |-> "lg", path |-> "good", stream |-> NULLP]}
LevelsFor(nullArgs)  == IF nullArgs THEN {LOG_INFO} ELSE Levels
MutexOkFor(nullArgs) == IF nullArgs THEN {TRUE} ELSE BOOLEAN
ValuesFor(a, S)      == IF a = "null" THEN {CHOOSE v \in S : TRUE} ELSE S

IsNullCall(x) ==
    \/ x.a = "null"
    \/ "stream" \in DOMAIN x /\ x.stream = NULLP
    \/ "path" \in DOMAIN x /\ x.path = "null"
    \/ "msgNull" \in DOMAIN x /\ x.msgNull

InitStreamCall(t, x, level, mtxOk) ==
    /\ em[t].pc = "idle"
    /\ InitBudget(IsNullCall(x))
    /\ Return(t, "init_stream",
              logger_init_stream(World(t), x.a, x.stream, level, mtxOk,
                                 streamKind))

InitFileCall(t, x, level, mtxOk) ==
    /\ em[t].pc = "idle"
    /\ InitBudget(IsNullCall(x))
    /\ Return(t, "init_file",
              logger_init_file(World(t), x.a, x.path, level, mtxOk))

InitDualCall(t, x, level, mtxOk) ==
    /\ em[t].pc = "idle"
    /\ InitBudget(IsNullCall(x))
    /\ Return(t, "init_dual",
              logger_init_dual(World(t), x.a, x.path, x.stream, level, mtxOk,
                               streamKind))

CloseCall(t, a) ==
    /\ em[t].pc = "idle"
    /\ Written(a)
    /\ Return(t, "close", logger_close(World(t), a))
    /\ UNCHANGED calls

\* a call of setter with logger a and value v
SetterCall(t, op, w) ==
    /\ em[t].pc = "idle"
    /\ Return(t, op, w)
    /\ UNCHANGED calls

InitStream(t) ==
    \E x \in StreamArgs :
      \E level \in LevelsFor(IsNullCall(x)), mtxOk \in MutexOkFor(IsNullCall(x)) :
        InitStreamCall(t, x, level, mtxOk)

InitFile(t) ==
    \E x \in FileArgs :
      \E level \in LevelsFor(IsNullCall(x)), mtxOk \in MutexOkFor(IsNullCall(x)) :
        InitFileCall(t, x, level, mtxOk)

InitDual(t) ==
    \E x \in DualArgs :
      \E level \in LevelsFor(IsNullCall(x)), mtxOk \in MutexOkFor(IsNullCall(x)) :
        InitDualCall(t, x, level, mtxOk)

Close(t) == \E a \in LgArgs : CloseCall(t, a)

SetLevel(t) ==
    \E a \in LgArgs : \E level \in ValuesFor(a, Levels) :
        Written(a) /\ SetterCall(t, "set_level",
                                 logger_set_level(World(t), a, level))

SetName(t) ==
    \E a \in LgArgs : \E name \in ValuesFor(a, Names) :
        Written(a) /\ SetterCall(t, "set_name",
                                 logger_set_name(World(t), a, name))

EnableTimestamps(t) ==
    \E a \in LgArgs : \E on \in ValuesFor(a, BOOLEAN) :
        Written(a) /\ SetterCall(t, "enable_timestamps",
                                 logger_enable_timestamps(World(t), a, on))

EnableColors(t) ==
    \E a \in LgArgs : \E on \in ValuesFor(a, BOOLEAN) :
        Written(a) /\ SetterCall(t, "enable_colors",
                                 logger_enable_colors(World(t), a, on))

EnableLocking(t) ==
    \E a \in LgArgs : \E on \in ValuesFor(a, BOOLEAN) :
        Written(a) /\ SetterCall(t, "enable_locking",
                                 logger_enable_locking(World(t), a, on))

\* ------------------------------------------------------------ emission
level_name(lv) ==
    CASE lv = LOG_DEBUG    -> "DEBUG"
      [] lv = LOG_INFO     -> "INFO"
      [] lv = LOG_WARNING  -> "WARNING"
      [] lv = LOG_ERROR    -> "ERROR"
      [] lv = LOG_CRITICAL -> "CRITICAL"
      [] OTHER             -> "LVL?"

level_color(lv) ==
    CASE lv = LOG_DEBUG    -> "ESC[2m"
      [] lv = LOG_INFO     -> "ESC[0m"
      [] lv = LOG_WARNING  -> "ESC[33m"
      [] lv = LOG_ERROR    -> "ESC[31m"
      [] lv = LOG_CRITICAL -> "ESC[1;41m"
      [] OTHER             -> "ESC[0m"

\* now_iso8601: the rendered UTC time; the empty string when timestamps are off
now_iso8601 == <<"YYYY-MM-DDTHH:MM:SSZ">>

\* A message is its leading characters txt followed by fill more ordinary
\* characters.  vsnprintf with no arguments copies it, turns "%%" into "%"
\* and keeps at most BUF_SIZE - 1 characters.
RECURSIVE PercentFold(_)
PercentFold(txt) ==
    IF Len(txt) = 0 THEN <<>>
    ELSE IF Len(txt) >= 2 /\ txt[1] = "%" /\ txt[2] = "%"
         THEN <<"%">> \o PercentFold(SubSeq(txt, 3, Len(txt)))
         ELSE <<txt[1]>> \o PercentFold(Tail(txt))

vsnprintf(fmt) ==
    LET t == PercentFold(fmt.txt)
        k == Min(Len(t), BUF_SIZE - 1)
    IN  [txt |-> SubSeq(t, 1, k), fill |-> Min(fmt.fill, BUF_SIZE - 1 - k)]

\* One write to a sink by emission id: which part of the line, and its text.
Frag(id, part, txt, fill) == [id |-> id, part |-> part, txt |-> txt, fill |-> fill]

\* (variant: the name tag is written even when no name is set)
emit_one_AlwaysName(id, colorize, color, timestamp, name, level, msg) ==
       (IF colorize THEN <<Frag(id, "color", <<color>>, 0)>> ELSE <<>>)
    \o (IF timestamp # <<>> THEN <<Frag(id, "ts", timestamp, 0)>> ELSE <<>>)
    \o <<Frag(id, "name", name, 0),
         Frag(id, "level", <<level_name(level)>>, 0),
         Frag(id, "loc", <<"file:line:func">>, 0),
         Frag(id, "msg", msg.txt, msg.fill),
         Frag(id, "nl", <<"\n">>, 0)>>
    \o (IF colorize THEN <<Frag(id, "reset", <<"ESC[0m">>, 0)>> ELSE <<>>)

\* (variant: the line is not terminated)
emit_one_NoNewline(id, colorize, color, timestamp, name, level, msg) ==
       (IF colorize THEN <<Frag(id, "color", <<color>>, 0)>> ELSE <<>>)
    \o (IF timestamp # <<>> THEN <<Frag(id, "ts", timestamp, 0)>> ELSE <<>>)
    \o (IF name # NoName THEN <<Frag(id, "name", name, 0)>> ELSE <<>>)
    \o <<Frag(id, "level", <<level_name(level)>>, 0),
         Frag(id, "loc", <<"file:line:func">>, 0),
         Frag(id, "msg", msg.txt, msg.fill)>>
    \o (IF colorize THEN <<Frag(id, "reset", <<"ESC[0m">>, 0)>> ELSE <<>>)

\* emit_one(out, colorize, color, timestamp, name, level, file, line, func,
\* msg): the stdio writes it makes, in order
emit_one(id, colorize, color, timestamp, name, level, msg) ==
       (IF colorize THEN <<Frag(id, "color", <<color>>, 0)>> ELSE <<>>)
    \o (IF timestamp # <<>> THEN <<Frag(id, "ts", timestamp, 0)>> ELSE <<>>)
    \o (IF name # NoName THEN <<Frag(id, "name", name, 0)>> ELSE <<>>)
    \o <<Frag(id, "level", <<level_name(level)>>, 0),
         Frag(id, "loc", <<"file:line:func">>, 0),
         Frag(id, "msg", msg.txt, msg.fill),
         Frag(id, "nl", <<"\n">>, 0)>>
    \o (IF colorize THEN <<Frag(id, "reset", <<"ESC[0m">>, 0)>> ELSE <<>>)

\* (variant: the filter also drops a message at the threshold itself)
Filtered_AtThreshold(level, threshold) == level <= threshold

\* if (level < lg->level) return;
Filtered(level, threshold) == level < threshold

SinkOf(h) == IF h = STREAM THEN "stream" ELSE "file"

MutexValid(m, id) == id # NULLP /\ m[id].st = "valid"
MutexLock(m, id, t)   == [m EXCEPT ![id].owner = t]
MutexUnlock(m, id) == [m EXCEPT ![id].owner = 0]

\* What an emission by thread t reads and writes, as one record x: the mutex
\* table, the sinks, the thread's errno, the undefined operations, the thread's
\* own position e, and the record of the last call.  The Logger struct, the
\* FILE states and the kind of stream are read from the state: no emission
\* step writes them.
EmX(t) == [mtx |-> mtx, out |-> out, errno |-> errno[t], ub |-> ub,
           e |-> em[t], last |-> last]

\* (variant: the message pointer is not checked)
emit_call_UncheckedMsg(x, id, api, a, msgNull, msg, level) ==
    IF a = "null"
    THEN [x EXCEPT !.errno = EINVAL, !.last = [op |-> api, ret |-> "einval"]]
    ELSE IF Filtered(level, lg.level)
    THEN [x EXCEPT !.last = [op |-> api, ret |-> "suppressed"]]
    ELSE [x EXCEPT !.e = [IdleEm EXCEPT !.pc = "lock", !.api = api, !.id = id,
                                        !.sev = level, !.msg = msg]]

\* (variant: the level is not compared before the lock)
emit_call_NoFilter(x, id, api, a, msgNull, msg, level) ==
    IF a = "null" \/ msgNull
    THEN [x EXCEPT !.errno = EINVAL, !.last = [op |-> api, ret |-> "einval"]]
    ELSE [x EXCEPT !.e = [IdleEm EXCEPT !.pc = "lock", !.api = api, !.id = id,
                                        !.sev = level, !.msg = msg]]

\* the call, its argument validation and the level filter
\* (logger_log_impl validates and calls logger_vlog_impl, which validates again)
emit_call(x, id, api, a, msgNull, msg, level) ==
    IF a = "null" \/ msgNull
    THEN [x EXCEPT !.errno = EINVAL, !.last = [op |-> api, ret |-> "einval"]]
    ELSE IF Filtered(level, lg.level)
    THEN [x EXCEPT !.last = [op |-> api, ret |-> "suppressed"]]
    ELSE [x EXCEPT !.e = [IdleEm EXCEPT !.pc = "lock", !.api = api, !.id = id,
                                        !.sev = level, !.msg = msg]]

\* (variant: the lock is taken without waiting for its holder)
emit_lock_NoWait(x, t) ==
    IF ~lg.locking THEN {[x EXCEPT !.e.pc = "prep"]}
    ELSE IF MutexValid(x.mtx, lg.lock)
    THEN {[x EXCEPT !.mtx = MutexLock(x.mtx, lg.lock, t),
                    !.e.pc = "prep", !.e.locked = TRUE]}
    ELSE {[x EXCEPT !.ub = @ \cup {"lock_of_invalid_mutex"}, !.e.pc = p] :
             p \in {"prep", "hung"}}

\* (variant: the emission never takes the lock)
emit_lock_Skips(x, t) == {[x EXCEPT !.e.pc = "prep"]}

\* if (lg->locking) LOGGER_MUTEX_LOCK(lg->lock);
\* the thread waits while another holds the mutex (no successor).  Locking a
\* mutex that is not valid is undefined: the thread goes on without the lock,
\* or never returns
emit_lock(x, t) ==
    IF ~lg.locking THEN {[x EXCEPT !.e.pc = "prep"]}
    ELSE IF MutexValid(x.mtx, lg.lock)
    THEN IF x.mtx[lg.lock].owner # 0 THEN {}
         ELSE {[x EXCEPT !.mtx = MutexLock(x.mtx, lg.lock, t),
                         !.e.pc = "prep", !.e.locked = TRUE]}
    ELSE {[x EXCEPT !.ub = @ \cup {"lock_of_invalid_mutex"}, !.e.pc = p] :
             p \in {"prep", "hung"}}

\* timestamp, rendering of the message, and the colour decision
\* lg->colors && lg->stream && is_tty(lg->stream)
emit_prep(x) ==
    {[x EXCEPT
        !.e.pc = "stream",
        !.e.ts = IF lg.timestamps THEN now_iso8601 ELSE <<>>,
        !.e.buf = IF x.e.api = "write" THEN x.e.msg ELSE vsnprintf(x.e.msg),
        !.e.scolor = lg.colors /\ lg.stream # NULLP
                     /\ IsattyValue(lg.stream, streamKind),
        !.errno = IF lg.colors /\ lg.stream # NULLP
                  THEN IsattyErrno(@, lg.stream, streamKind) ELSE @]}

\* if (lg->stream) emit_one(lg->stream, stream_color, color, ...)
emit_stream(x) ==
    IF lg.stream # NULLP
    THEN {[x EXCEPT !.e.pc = "write", !.e.sink = lg.stream,
                    !.e.todo = emit_one(x.e.id, x.e.scolor,
                                        level_color(x.e.sev), x.e.ts, lg.name,
                                        x.e.sev, x.e.buf)]}
    ELSE {[x EXCEPT !.e.pc = "file"]}

\* (variant: the file is written with the colour decision of the stream)
emit_file_Colorized(x) ==
    IF lg.file # NULLP
    THEN {[x EXCEPT !.e.pc = "write", !.e.sink = lg.file,
                    !.e.todo = emit_one(x.e.id, x.e.scolor,
                                        level_color(x.e.sev), x.e.ts, lg.name,
                                        x.e.sev, x.e.buf)]}
    ELSE {[x EXCEPT !.e.pc = "unlock"]}

\* (variant: the file line is written without the timestamp of the emission)
emit_file_NoTimestamp(x) ==
    IF lg.file # NULLP
    THEN {[x EXCEPT !.e.pc = "write", !.e.sink = lg.file,
                    !.e.todo = emit_one(x.e.id, FALSE, "", <<>>, lg.name,
                                        x.e.sev, x.e.buf)]}
    ELSE {[x EXCEPT !.e.pc = "unlock"]}

\* if (lg->file) emit_one(lg->file, file_color, "", ...), file_color = false
emit_file(x) ==
    IF lg.file # NULLP
    THEN {[x EXCEPT !.e.pc = "write", !.e.sink = lg.file,
                    !.e.todo = emit_one(x.e.id, FALSE, "", x.e.ts, lg.name,
                                        x.e.sev, x.e.buf)]}
    ELSE {[x EXCEPT !.e.pc = "unlock"]}

HandleOpen(h) ==
    IF h = STREAM THEN streamSt.st = "open" ELSE files[FileIndex(h)].st = "open"

\* one fputs / fprintf / fputc of emit_one; the fflush follows the last one
emit_write(x) ==
    {[x EXCEPT
        !.out[SinkOf(x.e.sink)] = Append(@, Head(x.e.todo)),
        !.ub = IF HandleOpen(x.e.sink) THEN @
               ELSE @ \cup {"write_to_closed_file"},
        !.e.todo = Tail(@),
        !.e.pc = IF Len(x.e.todo) > 1 THEN "write"
                 ELSE IF x.e.sink = STREAM THEN "file" ELSE "unlock"]}

\* (variant: the emission returns without releasing the mutex)
emit_unlock_KeepsLock(x, t) ==
    {[x EXCEPT !.e = IdleEm, !.last = [op |-> x.e.api, ret |-> "emitted"]]}

\* if (lg->locking) LOGGER_MUTEX_UNLOCK(lg->lock); and the return.  Unlocking
\* a mutex the thread does not hold is undefined: it stays as it is, or is
\* released
emit_unlock(x, t) ==
    LET done == [x EXCEPT !.e = IdleEm,
                          !.last = [op |-> x.e.api, ret |-> "emitted"]]
    IN  IF ~lg.locking THEN {done}
        ELSE IF MutexValid(x.mtx, lg.lock) /\ x.mtx[lg.lock].owner = t
        THEN {[done EXCEPT !.mtx = MutexUnlock(x.mtx, lg.lock)]}
        ELSE {[done EXCEPT !.ub = @ \cup {"unlock_of_mutex_not_held"}]}
             \cup (IF MutexValid(x.mtx, lg.lock)
                   THEN {[done EXCEPT
                            !.ub = @ \cup {"unlock_of_mutex_not_held"},
                            !.mtx = MutexUnlock(x.mtx, lg.lock)]}
                   ELSE {})

\* the next step of thread t's emission: every state it can lead to
emit_step(x, t) ==
    CASE x.e.pc = "lock"   -> emit_lock(x, t)
      [] x.e.pc = "prep"   -> emit_prep(x)
      [] x.e.pc = "stream" -> emit_stream(x)
      [] x.e.pc = "write"  -> emit_write(x)
      [] x.e.pc = "file"   -> emit_file(x)
      [] x.e.pc = "unlock" -> emit_unlock(x, t)
      [] OTHER             -> {}

\* the emission run to its return (or to where it hangs), with no other
\* thread taking a step in between
RECURSIVE emit_run(_, _)
emit_run(x, t) ==
    IF x.e.pc \in {"idle", "hung"} THEN {x}
    ELSE UNION {emit_run(y, t) : y \in emit_step(x, t)}

EmReturn(t, x) ==
    /\ lastOp' = x.last.op
    /\ lastRet' = x.last.ret
    /\ mtx' = x.mtx
    /\ out' = x.out
    /\ errno' = [errno EXCEPT ![t] = x.errno]
    /\ ub' = x.ub
    /\ em' = [em EXCEPT ![t] = x.e]
    /\ UNCHANGED <<lg, files, streamSt, streamKind>>

EmitBudget(nullArgs) ==
    /\ nullArgs \/ calls.init + calls.emit < MaxCalls
    /\ calls' = IF nullArgs THEN calls ELSE [calls EXCEPT !.emit = @ + 1]

ValidEmit == [a |-> "lg", msgNull |-> FALSE]
EmitArgs  == {ValidEmit, [a |-> "null", msgNull |-> FALSE],
              [a |-> "lg", msgNull |-> TRUE]}

\* a whole emission call by a thread that runs alone
EmitWhole(t, api, c, level, msg) ==
    /\ em[t].pc = "idle"
    /\ Written(c.a)
    /\ EmitBudget(IsNullCall(c))
    /\ \E x \in emit_run(emit_call(EmX(t), calls.emit + 1, api, c.a,
                                   c.msgNull, msg, level), t) :
          EmReturn(t, x)

Emit(t) ==
    \E api \in Apis, c \in EmitArgs :
      \E level \in LevelsFor(IsNullCall(c)), msg \in Msgs :
        EmitWhole(t, api, c, level, msg)

\* the same call taken one step at a time, other threads running in between
EmitEnter(t, api, c, level, msg) ==
    /\ em[t].pc = "idle"
    /\ Written(c.a)
    /\ IsNullCall(c) \/ calls.emit < MaxEmits
    /\ calls' = IF IsNullCall(c) THEN calls ELSE [calls EXCEPT !.emit = @ + 1]
    /\ EmReturn(t, emit_call(EmX(t), calls.emit + 1, api, c.a, c.msgNull,
                             msg, level))

EmitCall(t) ==
    \E api \in {"log", "write"}, level \in Levels, msg \in Msgs :
        EmitEnter(t, api, ValidEmit, level, msg)

EmitStep(t) ==
    /\ em[t].pc \notin {"idle", "hung"}
    /\ \E x \in emit_step(EmX(t), t) : EmReturn(t, x)
    /\ UNCHANGED calls

\* ------------------------------------------------------ specifications
Lifecycle(t) ==
    \/ InitStream(t)
    \/ InitFile(t)
    \/ InitDual(t)
    \/ Close(t)

Setters(t) ==
    \/ SetLevel(t)
    \/ SetName(t)
    \/ EnableTimestamps(t)
    \/ EnableColors(t)
    \/ EnableLocking(t)

\* one thread calling the API, one call after the other
\* (of the setters, the two that decide whether an emission writes and what
\* it does with the mutex; the other three only select the parts of a line)
Next ==
    \E t \in Caller :
        \/ Lifecycle(t)
        \/ SetLevel(t)
        \/ EnableLocking(t)
        \/ Emit(t)

Spec == Init /\ [][Next]_vars

\* Several threads emitting through one logger.  The first thread sets the
\* logger up with one successful initializer call.  Setters are not
\* synchronized with emission, so the caller runs logger_enable_locking only
\* while no emission is in progress, and with locking disabled a thread emits
\* only while no other does (logger.h: locking is disabled for
\* single-threaded use).
Alone(t) == \A u \in Threads \ {t} : em[u].pc = "idle"

Setup(t) ==
    /\ calls.init = 0
    /\ \E level \in Levels :
          \/ InitStreamCall(t, [a |-> "lg", stream |-> STREAM], level, TRUE)
          \/ InitFileCall(t, [a |-> "lg", path |-> "good"], level, TRUE)
          \/ InitDualCall(t, [a |-> "lg", path |-> "good", stream |-> STREAM],
                          level, TRUE)

NextMT ==
    \/ \E t \in Caller : Setup(t)
    \/ \E t \in Caller : Quiescent /\ EnableLocking(t)
    \/ \E t \in Threads : (lg.locking \/ Alone(t)) /\ EmitCall(t)
    \/ \E t \in Threads : EmitStep(t)

SpecMT == Init /\ [][NextMT]_vars

\* One thread configuring the logger: initializers that succeed, logger_close
\* and all five setters.
InitCfg(t) ==
    \E level \in Levels :
        \/ InitStreamCall(t, [a |-> "lg", stream |-> STREAM], level, TRUE)
        \/ InitFileCall(t, [a |-> "lg", path |-> "good"], level, TRUE)
        \/ InitDualCall(t, [a |-> "lg", path |-> "good", stream |-> STREAM],
                        level, TRUE)

EmitCfg(t) ==
    \E api \in {"log", "write"}, level \in Levels, msg \in Msgs :
        EmitWhole(t, api, ValidEmit, level, msg)

\* the setters, called on the logger
Configure(t) ==
    /\ Written("lg")
    /\ \/ \E level \in Levels :
             SetterCall(t, "set_level", logger_set_level(World(t), "lg", level))
       \/ \E name \in Names :
             SetterCall(t, "set_name", logger_set_name(World(t), "lg", name))
       \/ \E on \in BOOLEAN :
             SetterCall(t, "enable_timestamps",
                        logger_enable_timestamps(World(t), "lg", on))
       \/ \E on \in BOOLEAN :
             SetterCall(t, "enable_colors",
                        logger_enable_colors(World(t), "lg", on))
       \/ \E on \in BOOLEAN :
             SetterCall(t, "enable_locking",
                        logger_enable_locking(World(t), "lg", on))

NextCfg ==
    \E t \in Caller :
        \/ InitCfg(t)
        \/ CloseCall(t, "lg")
        \/ Configure(t)

SpecCfg == Init /\ [][NextCfg]_vars

\* One thread calling the setters, with a logger it has set up once or with
\* NULL.
NextSetters ==
    \E t \in Caller :
        \/ Setup(t)
        \/ Setters(t)

SpecSetters == Init /\ [][NextSetters]_vars

\* One thread emitting through a logger it has set up once and configures
\* between the emissions.
NextFmt ==
    \E t \in Caller :
        \/ Setup(t)
        \/ Configure(t)
        \/ EmitCfg(t)

SpecFmt == Init /\ [][NextFmt]_vars

\* The first thread sets the logger up and then calls setters at any time,
\* also while another thread is inside an emission (the setters take no
\* lock).  An emission is taken in three steps here: the call, the lock, and
\* the rest up to the return.
Emitters == Threads \ Caller

SetupSet(t) ==
    /\ calls.init = 0
    /\ InitDualCall(t, [a |-> "lg", path |-> "good", stream |-> STREAM],
                    LOG_INFO, TRUE)

EmitCallSet(t) ==
    /\ calls.init + calls.emit < MaxCalls
    /\ lg.locking \/ Alone(t)
    /\ EmitEnter(t, "log", ValidEmit, LOG_ERROR, PlainMsg)

EmitLock(t) == em[t].pc = "lock" /\ EmitStep(t)

EmitRest(t) ==
    /\ em[t].pc = "prep"
    /\ \E x \in emit_run(EmX(t), t) : EmReturn(t, x)
    /\ UNCHANGED calls

NextSet ==
    \/ \E t \in Caller : SetupSet(t)
    \/ \E t \in Caller : Configure(t)
    \/ \E t \in Emitters : EmitCallSet(t)
    \/ \E t \in Emitters : EmitLock(t)
    \/ \E t \in Emitters : EmitRest(t)

SpecSet == Init /\ [][NextSet]_vars

\* One thread emitting messages of every shape through a logger it has set
\* up once: an ordinary message, the text "%%", and a message of more than
\* BUF_SIZE characters.
PercentMsg == [txt |-> <<"%", "%">>, fill |-> 0]
LongMsg    == [txt |-> <<"m">>, fill |-> BUF_SIZE]
FmtMsgs    == {PlainMsg, PercentMsg, LongMsg}

EmitMsg(t) ==
    \E api \in Apis, level \in Levels, msg \in FmtMsgs :
        EmitWhole(t, api, ValidEmit, level, msg)

NextMsg ==
    \E t \in Caller :
        \/ Setup(t)
        \/ EmitMsg(t)

SpecMsg == Init /\ [][NextMsg]_vars

\* Several threads emitting through one logger that is open on a file and on a
\* stream, with locking enabled, no setter and no logger_close running.  The scheduler is fair to every
\* thread that is inside an emission: a thread that can take its next step
\* eventually takes it.
SetupLive(t) ==
    /\ calls.init = 0
    /\ \E level \in Levels :
          InitDualCall(t, [a |-> "lg", path |-> "good", stream |-> STREAM],
                       level, TRUE)

NextLive ==
    \/ \E t \in Caller : SetupLive(t)
    \/ \E t \in Threads : EmitCall(t)
    \/ \E t \in Threads : EmitStep(t)

SpecLive ==
    /\ Init
    /\ [][NextLive]_vars
    /\ \A t \in Threads : WF_vars(EmitStep(t))

\* ================================================================ claims
Sinks  == {"stream", "file"}
InitOps == {"init_stream", "init_file", "init_dual"}

\* the logger was initialized successfully and has not been closed since:
\* only a successful initializer binds a sink, init_common and logger_close
\* clear both
IsOpen == lg.file # NULLP \/ lg.stream # NULLP
Bound(s) == IF s = "stream" THEN lg.stream # NULLP ELSE lg.file # NULLP

\* C1: on an open logger with threshold T = lg.level, an emission call at
\* severity S with valid arguments writes to a sink exactly if the sink is
\* bound and S >= T; when S < T it writes nothing and leaves errno as it was.
C1_LevelFilter ==
    [][\A t \in Caller, api \in Apis, S \in Levels, msg \in Msgs :
         (IsOpen /\ EmitWhole(t, api, ValidEmit, S, msg)) =>
            /\ \A s \in Sinks : (out'[s] # out[s]) <=> (Bound(s) /\ S >= lg.level)
            /\ S < lg.level => errno' = errno /\ mtx' = mtx]_vars

C1_Witness ==
    /\ IsOpen
    /\ last.ret = "suppressed"
    /\ out.stream = <<>> /\ out.file = <<>>

\* C2: while locking is enabled on an open logger, at most one thread is
\* between the lock and the unlock of an emission.
InCritical(t) == em[t].pc \in {"prep", "stream", "write", "file", "unlock"}

C2_MutualExclusion ==
    (IsOpen /\ lg.locking) =>
        \A t, u \in Threads : InCritical(t) /\ InCritical(u) => t = u

C2_Witness ==
    /\ IsOpen /\ lg.locking
    /\ \E t, u \in Threads :
          /\ em[t].pc = "write" /\ mtx[lg.lock].owner = t
          /\ em[u].pc = "lock"

\* C3: in each sink the writes of one emission are contiguous - between two
\* writes of an emission there is no write of another - and come in the order
\* of emit_one, each part at most once.
PartRank(p) ==
    CASE p = "color" -> 1 [] p = "ts" -> 2 [] p = "name" -> 3
      [] p = "level" -> 4 [] p = "loc" -> 5 [] p = "msg" -> 6
      [] p = "nl" -> 7 [] p = "reset" -> 8

C3_WholeLines ==
    \A s \in Sinks :
        \A i, j \in DOMAIN out[s] :
            (i < j /\ out[s][i].id = out[s][j].id) =>
                /\ \A k \in i..j : out[s][k].id = out[s][i].id
                /\ PartRank(out[s][i].part) < PartRank(out[s][j].part)

C3_Witness ==
    /\ lg.locking
    /\ \E t, u \in Threads :
          /\ em[t].pc = "write" /\ em[u].pc = "lock"
          /\ \E s \in Sinks : \E i \in DOMAIN out[s] : out[s][i].id = em[t].id

\* C4: no mutex is destroyed more than once.
C4_MutexDestroyedAtMostOnce ==
    \A i \in DOMAIN mtx : mtx[i].destroys <= 1

\* C5: logger_close(lg) leaves both sinks NULL and initialized false; when
\* nothing is left to release (both sinks already NULL) it leaves errno as it
\* was; logger_close(NULL) changes neither errno nor the logger.
C5_CloseNoOp ==
    [][\A t \in Caller :
         /\ CloseCall(t, "null") => errno' = errno /\ lg' = lg
         /\ CloseCall(t, "lg") =>
              /\ lg'.file = NULLP /\ lg'.stream = NULLP /\ ~lg'.initialized
              /\ ~IsOpen => errno' = errno /\ out' = out]_vars

C5_Witness ==
    /\ last.op = "close"
    /\ ~IsOpen /\ ~lg.initialized
    /\ lg.lock # NULLP /\ mtx[lg.lock].destroys > 1

\* C6: logger_close closes the file the logger holds (which it opened itself),
\* and nothing else; no file is closed twice, the file the logger holds is
\* open, and the caller's stream is never closed.
FilesClosedBy(h) ==
    [i \in DOMAIN files |->
        IF h # NULLP /\ i = FileIndex(h) THEN Closed(files[i]) ELSE files[i]]

C6_ClosesOwnFileOnce ==
    /\ [](/\ streamSt.st = "open" /\ streamSt.closes = 0
          /\ \A i \in DOMAIN files : files[i].closes <= 1
          /\ lg.file # NULLP => IsFile(lg.file) /\ HandleOpen(lg.file))
    /\ [][\A t \in Caller :
            CloseCall(t, "lg") => files' = FilesClosedBy(lg.file)]_vars

C6_Witness ==
    /\ last.op = "close"
    /\ lg.stream = NULLP /\ streamSt.st = "open"
    /\ \E i \in DOMAIN files : files[i].st = "closed" /\ files[i].closes = 1

\* C7: when the open fails in logger_init_file or logger_init_dual, the call
\* returns false with the errno of the failed open, the mutex it created is
\* destroyed, the logger holds no file, and the stream is neither bound nor
\* re-buffered.
C7_OpenFailure ==
    [][\A t \in Caller, level \in Levels :
         (\/ InitFileCall(t, [a |-> "lg", path |-> "bad"], level, TRUE)
          \/ InitDualCall(t, [a |-> "lg", path |-> "bad", stream |-> STREAM],
                          level, TRUE)) =>
            /\ last'.ret = "open"
            /\ errno'[t] = FopenErrno
            /\ Len(mtx') = Len(mtx) + 1
            /\ mtx'[Len(mtx')] = [st |-> "destroyed", owner |-> 0, destroys |-> 1]
            /\ lg'.file = NULLP /\ files' = files
            /\ lg'.stream = NULLP /\ streamSt' = streamSt]_vars

C7_Witness ==
    /\ last = [op |-> "init_dual", ret |-> "open"]
    /\ streamKind = "tty"

\* C8: after an initializer call that returned false the initialized flag is
\* not true (for a NULL argument: the call did not make it true).
C8_InitializedOnlyOnSuccess ==
    (last.op \in InitOps /\ last.ret # "true") =>
        IF last.ret = "einval" THEN calls.init = 0 => ~lg.initialized
        ELSE ~lg.initialized

\* C9: between two API calls the mutex is valid exactly if initialized is true.
C9_MutexValidIffInitialized ==
    Quiescent => (MutexValid(mtx, lg.lock) <=> lg.initialized)

\* C10: an initializer called with a NULL logger, stream or path returns false
\* with errno = EINVAL and changes nothing else: no file, no mutex, no
\* buffering, no field of the logger.
C10_NullArguments ==
    [][\A t \in Caller :
         (\/ \E x \in StreamArgs : IsNullCall(x) /\ InitStreamCall(t, x, LOG_INFO, TRUE)
          \/ \E x \in FileArgs : IsNullCall(x) /\ InitFileCall(t, x, LOG_INFO, TRUE)
          \/ \E x \in DualArgs : IsNullCall(x) /\ InitDualCall(t, x, LOG_INFO, TRUE)) =>
            /\ last'.ret = "einval"
            /\ errno'[t] = EINVAL
            /\ lg' = lg /\ mtx' = mtx /\ files' = files
            /\ streamSt' = streamSt /\ out' = out]_vars

C10_Witness ==
    /\ last = [op |-> "init_dual", ret |-> "einval"]
    /\ IsOpen

\* C11: an initializer call that returns false has set errno: a caller whose
\* errno was 0 before the call finds it non-zero after it.
C11_ErrnoSetOnFailure ==
    [][\A t \in Caller, level \in Levels, mtxOk \in BOOLEAN :
         (/\ \/ \E x \in StreamArgs : InitStreamCall(t, x, level, mtxOk)
             \/ \E x \in FileArgs : InitFileCall(t, x, level, mtxOk)
             \/ \E x \in DualArgs : InitDualCall(t, x, level, mtxOk)
          /\ last'.ret # "true"
          /\ errno[t] = 0) => errno'[t] # 0]_vars

\* C12: a setter called with a NULL logger sets errno to EINVAL and changes
\* nothing else; called on a logger it stores the value it is given (any
\* level, the NULL name, either boolean) and leaves errno as it was.
SetLevelCall(t, a, v) ==
    SetterCall(t, "set_level", logger_set_level(World(t), a, v))
SetNameCall(t, a, v) ==
    SetterCall(t, "set_name", logger_set_name(World(t), a, v))
EnableTimestampsCall(t, a, v) ==
    SetterCall(t, "enable_timestamps", logger_enable_timestamps(World(t), a, v))
EnableColorsCall(t, a, v) ==
    SetterCall(t, "enable_colors", logger_enable_colors(World(t), a, v))
EnableLockingCall(t, a, v) ==
    SetterCall(t, "enable_locking", logger_enable_locking(World(t), a, v))

NullSetterCall(t) ==
    \/ SetLevelCall(t, "null", LOG_INFO)
    \/ SetNameCall(t, "null", NoName)
    \/ \E v \in BOOLEAN : \/ EnableTimestampsCall(t, "null", v)
                           \/ EnableColorsCall(t, "null", v)
                           \/ EnableLockingCall(t, "null", v)

C12_Setters ==
    [][\A t \in Caller :
         /\ NullSetterCall(t) =>
               /\ errno'[t] = EINVAL
               /\ lg' = lg /\ mtx' = mtx /\ files' = files
               /\ streamSt' = streamSt /\ out' = out
         /\ \A v \in Levels :
               SetLevelCall(t, "lg", v) => lg'.level = v /\ errno' = errno
         /\ \A v \in Names :
               SetNameCall(t, "lg", v) => lg'.name = v /\ errno' = errno
         /\ \A v \in BOOLEAN :
               /\ EnableTimestampsCall(t, "lg", v) =>
                     lg'.timestamps = v /\ errno' = errno
               /\ EnableColorsCall(t, "lg", v) =>
                     lg'.colors = v /\ errno' = errno
               /\ EnableLockingCall(t, "lg", v) =>
                     lg'.locking = v /\ errno' = errno]_vars

C12_Witness ==
    /\ last = [op |-> "set_name", ret |-> "void"]
    /\ lg.name = NoName /\ ~lg.timestamps /\ ~lg.colors
    /\ \E t \in Caller : errno[t] = EINVAL

\* C13: a setter called on a logger changes no field of the logger but its
\* own, and changes no mutex, no file, no sink content and no emission in
\* progress.
OnlyField(f) ==
    \A g \in DOMAIN lg : g # f => lg'[g] = lg[g]

RestUnchanged ==
    /\ mtx' = mtx /\ files' = files /\ streamSt' = streamSt
    /\ out' = out /\ em' = em

C13_SetterFrame ==
    [][\A t \in Caller :
         /\ \A v \in Levels :
               SetLevelCall(t, "lg", v) => OnlyField("level") /\ RestUnchanged
         /\ \A v \in Names :
               SetNameCall(t, "lg", v) => OnlyField("name") /\ RestUnchanged
         /\ \A v \in BOOLEAN :
               /\ EnableTimestampsCall(t, "lg", v) =>
                     OnlyField("timestamps") /\ RestUnchanged
               /\ EnableColorsCall(t, "lg", v) =>
                     OnlyField("colors") /\ RestUnchanged
               /\ EnableLockingCall(t, "lg", v) =>
                     OnlyField("locking") /\ RestUnchanged]_vars

C13_Witness ==
    /\ last = [op |-> "enable_locking", ret |-> "void"]
    /\ ~lg.locking
    /\ \E u \in Emitters : em[u].pc = "prep" /\ mtx[lg.lock].owner = u

\* C14: an emission call with a non-NULL logger and message leaves errno as
\* it was, whether the message is suppressed or emitted.
C14_EmissionKeepsErrno ==
    [][\A t \in Caller, api \in Apis, level \in Levels, msg \in Msgs :
         EmitWhole(t, api, ValidEmit, level, msg) => errno' = errno]_vars

\* C15: an initializer call that returns true leaves errno as it was.
C15_InitSuccessKeepsErrno ==
    [][\A t \in Caller, level \in Levels :
         (/\ \/ \E x \in StreamArgs : InitStreamCall(t, x, level, TRUE)
             \/ \E x \in FileArgs : InitFileCall(t, x, level, TRUE)
             \/ \E x \in DualArgs : InitDualCall(t, x, level, TRUE)
          /\ last'.ret = "true") => errno' = errno]_vars

\* C16: an emission call with a NULL logger or a NULL message sets errno to
\* EINVAL, writes to no sink and neither locks nor unlocks the mutex.
C16_EmitNullArguments ==
    [][\A t \in Caller, api \in Apis, msg \in Msgs :
         \A c \in EmitArgs \ {ValidEmit} :
            EmitWhole(t, api, c, LOG_INFO, msg) =>
                /\ last'.ret = "einval"
                /\ errno'[t] = EINVAL
                /\ out' = out /\ mtx' = mtx /\ ub' = ub
                /\ em' = em /\ lg' = lg]_vars

C16_Witness ==
    /\ last.op \in Apis /\ last.ret = "einval"
    /\ IsOpen /\ lg.locking
    /\ \E t \in Threads : errno[t] = EINVAL

\* C17: after an initializer returned true, whatever the logger held before,
\* level is the level argument, timestamps, colors and locking are true, name
\* is NULL, initialized is true and the mutex is valid and unlocked;
\* logger_init_stream binds the stream only, logger_init_file an owned file
\* only, logger_init_dual both.
Defaults(level) ==
    /\ lg'.level = level /\ lg'.timestamps /\ lg'.colors /\ lg'.locking
    /\ lg'.name = NoName /\ lg'.initialized
    /\ MutexValid(mtx', lg'.lock) /\ mtx'[lg'.lock].owner = 0

OwnFile ==
    /\ IsFile(lg'.file) /\ files'[FileIndex(lg'.file)].st = "open"
    /\ lg'.owns_file

C17_ReinitOverwrites ==
    [][\A t \in Caller, level \in Levels :
         /\ InitStreamCall(t, [a |-> "lg", stream |-> STREAM], level, TRUE) =>
               /\ Defaults(level)
               /\ lg'.stream = STREAM /\ lg'.file = NULLP /\ ~lg'.owns_file
         /\ InitFileCall(t, [a |-> "lg", path |-> "good"], level, TRUE) =>
               /\ Defaults(level)
               /\ lg'.stream = NULLP /\ OwnFile
         /\ InitDualCall(t, [a |-> "lg", path |-> "good", stream |-> STREAM],
                         level, TRUE) =>
               /\ Defaults(level)
               /\ lg'.stream = STREAM /\ OwnFile]_vars

C17_Witness ==
    /\ last = [op |-> "init_stream", ret |-> "true"]
    /\ Len(mtx) = 2 /\ mtx[1].st = "valid"
    /\ Len(files) = 1 /\ files[1].st = "open"
    /\ lg.file = NULLP /\ ~lg.owns_file

\* C18: after an initializer returned true a sink is bound, and no call other
\* than an initializer or logger_close unbinds the last bound sink.
C18_SinkStaysBound ==
    /\ []((lastOp \in InitOps /\ lastRet = "true") => IsOpen)
    /\ [][(IsOpen /\ lastOp' \notin InitOps \cup {"close"}) => IsOpen']_vars

C18_Witness ==
    /\ lastRet = "emitted"
    /\ IsOpen /\ lg.name # NoName /\ ~lg.locking
    /\ out.stream # <<>> \/ out.file # <<>>

\* C19: the file never receives a colour sequence; the stream receives one
\* only if it is a terminal, and only from an emission made while colors are
\* enabled.
Escapes == {"color", "reset"}
Added(s) == {out'[s][i] : i \in Len(out[s]) + 1 .. Len(out'[s])}

C19_ColorOnlyOnTty ==
    /\ [](\A i \in DOMAIN out.file : out.file[i].part \notin Escapes)
    /\ []((\E i \in DOMAIN out.stream : out.stream[i].part \in Escapes)
            => streamKind = "tty")
    /\ [][(\E f \in Added("stream") : f.part \in Escapes) => lg.colors]_vars

C19_Witness ==
    /\ streamKind = "tty"
    /\ \E i \in DOMAIN out.stream, j \in DOMAIN out.file :
          /\ out.stream[i].part = "color"
          /\ out.file[j].id = out.stream[i].id

\* C20: the first thing an emission writes to a sink is the timestamp exactly
\* if timestamps are enabled.
C20_TimestampFirst ==
    [][\A s \in Sinks :
         Len(out'[s]) > Len(out[s]) =>
            (lg.timestamps <=> out'[s][Len(out[s]) + 1].part = "ts")]_vars

\* C21: what an emission adds to a sink holds the name tag once, with the
\* name set at that time, if a name is set, and no name tag if none is set;
\* what a sink already holds is never changed.
IsPrefix(a, b) == Len(a) <= Len(b) /\ SubSeq(b, 1, Len(a)) = a
Parts(s, p) == {i \in Len(out[s]) + 1 .. Len(out'[s]) : out'[s][i].part = p}

Outcome(t, api, level, msg) ==
    {[mtx |-> x.mtx, out |-> x.out, errno |-> x.errno, ub |-> x.ub,
      ret |-> x.last.ret] :
        x \in emit_run(emit_call(EmX(t), calls.emit + 1, api, "lg", FALSE,
                                 msg, level), t)}

C23_WriteEqualsLog ==
    IsOpen =>
        \A t \in Caller, level \in Levels, msg \in FmtMsgs :
            /\ Outcome(t, "write", level, msg) = Outcome(t, "log", level, msg)
            /\ Outcome(t, "write", level, msg) = Outcome(t, "vlog", level, msg)

\* C24: with locking enabled, fair scheduling and no setter or close running,
\* every emission that has started eventually returns, and whenever no
\* emission is in progress the mutex is free.
C24_EmissionsReturn ==
    /\ \A t \in Threads : (em[t].pc # "idle") ~> (em[t].pc = "idle")
    /\ [](Quiescent => \A i \in DOMAIN mtx : mtx[i].owner = 0)

\* a thread waits for the mutex while another is about to release it
C24_Witness ==
    \E t, u \in Threads :
        /\ t # u
        /\ lg.locking
        /\ em[t].pc = "lock"
        /\ em[u].pc = "unlock"
        /\ mtx[lg.lock].owner = u

\* C25: in every interleaving of emissions and setter calls, a mutex that is
\* held is held by a thread that is still inside its emission, and no emission
\* unlocks a mutex it does not hold.
C25_UnlocksIffLocked ==
    /\ \A i \in DOMAIN mtx :
          mtx[i].owner # 0 => em[mtx[i].owner].pc # "idle"
    /\ "unlock_of_mutex_not_held" \notin ub

\* C26: an emission whose severity is below the threshold returns in the step
\* of its call, whoever holds the mutex: it does not wait, the mutex and the
\* sinks stay as they are and no undefined operation happens.
C26_FilterBeforeLock ==
    [][\A t \in Threads, api \in Apis, S \in Levels, msg \in Msgs :
         (EmitEnter(t, api, ValidEmit, S, msg) /\ S < lg.level)
            => /\ em'[t].pc = "idle"
               /\ lastRet' = "suppressed"
               /\ mtx' = mtx
               /\ out' = out
               /\ ub' = ub]_vars

\* the second emission was suppressed while the first, still in progress,
\* holds the mutex
C26_Witness ==
    /\ lastRet = "suppressed"
    /\ calls.emit = 2
    /\ \E u \in Threads :
          /\ em[u].id = 1
          /\ em[u].pc = "prep"
          /\ mtx[lg.lock].owner = u

\* the files and mutexes that exist before the step are left as they are, and
\* after the step the logger refers to none of them
LeaksPrevious ==
    /\ \A i \in DOMAIN files :
          files'[i] = files[i] /\ lg'.file # FileHandle(i)
    /\ \A j \in DOMAIN mtx :
          mtx'[j] = mtx[j] /\ lg'.lock # j

\* no step closes a file or touches a mutex the logger does not refer to
NeverReleased ==
    /\ \A i \in DOMAIN files :
          lg.file # FileHandle(i) => files'[i] = files[i]
    /\ \A j \in DOMAIN mtx :
          lg.lock # j => mtx'[j] = mtx[j]

\* C27: an initializer call that gets past its argument check leaves every
\* file opened and every mutex created by an earlier initialization as it is
\* and makes the logger forget it, and no call (initializer, setter, emission
\* or logger_close) closes a file or destroys a mutex the logger has
\* forgotten: without a logger_close before the call they are leaked.
\* (calls.init counts the initializer calls that passed their argument check.)
C27_ReinitLeaks ==
    [][/\ calls'.init > calls.init => LeaksPrevious
       /\ NeverReleased]_vars

\* a file and a mutex of the first initialization are still open and valid
\* after the logger has been initialized again and closed
C27_Witness ==
    /\ lastOp = "close"
    /\ Len(files) >= 1 /\ files[1].st = "open"
    /\ Len(mtx) = 2 /\ mtx[1].st = "valid" /\ mtx[2].st = "destroyed"
    /\ lg.file = NULLP

\* the logger holds the open file of an initialization it has not closed
HoldsOwnFile ==
    /\ lg.owns_file /\ IsFile(lg.file)
    /\ files[FileIndex(lg.file)].st = "open"

\* C27 as stated, for every initializer call made on a logger that holds its
\* own open file: the call leaks what the logger held, and what is leaked is
\* never released.
C27_AnyReinitLeaks ==
    [][/\ \A t \in Caller, level \in Levels, ok \in BOOLEAN :
            /\ \A x \in StreamArgs :
                  (HoldsOwnFile /\ x.a = "lg"
                     /\ InitStreamCall(t, x, level, ok)) => LeaksPrevious
            /\ \A x \in FileArgs :
                  (HoldsOwnFile /\ x.a = "lg"
                     /\ InitFileCall(t, x, level, ok)) => LeaksPrevious
            /\ \A x \in DualArgs :
                  (HoldsOwnFile /\ x.a = "lg"
                     /\ InitDualCall(t, x, level, ok)) => LeaksPrevious
       /\ NeverReleased]_vars

\* what a sink holds, the colour and reset sequences left out
IsText(f) == f.part \notin Escapes
Text(s) == SelectSeq(out[s], IsText)

\* C28: with locking enabled on a logger bound to a file and a stream, the
\* file holds, colour sequences apart, what the stream holds, in the same
\* order and with the same timestamps: at any moment the text of the file is
\* the beginning of the text of the stream, and the two are equal whenever no
\* emission is in progress.
C28_SameOrderInBothSinks ==
    (lg.locking /\ lg.file # NULLP /\ lg.stream # NULLP) =>
        /\ IsPrefix(Text("file"), Text("stream"))
        /\ Quiescent => Text("file") = Text("stream")

\* one thread waits for the mutex while another, having written its line to
\* the stream, is writing it to the file
C28_Witness ==
    \E t, u \in Threads :
        /\ lg.locking /\ lg.stream # NULLP
        /\ em[t].pc = "lock"
        /\ em[u].pc = "write" /\ IsFile(em[u].sink)
        /\ Text("file") # <<>>
        /\ Text("file") # Text("stream")

\* C29: no emission locks or unlocks a mutex that is not valid, and an
\* emission on a logger that is closed or whose initialization failed
\* returns without output and without a mutex operation.
C29_ValidMutexOnly ==
    /\ "lock_of_invalid_mutex" \notin ub
    /\ "unlock_of_mutex_not_held" \notin ub
    /\ \A t \in Threads : em[t].pc # "hung"
    /\ (lastRet = "emitted" /\ lg.locking) => MutexValid(mtx, lg.lock)

\* C30: owns_file is true only while file refers to the open file of the
\* logger's own initializer; in particular not after logger_close.
C30_OwnsFileOnlyWithFile ==
    lg.owns_file =>
        /\ IsFile(lg.file)
        /\ files[FileIndex(lg.file)].st = "open"
====
